---- MODULE Spec2Model ----
(***************************************************************************)
(* Le Pire Cube (src/cube.js): the simulation core -- WorldGenerator,      *)
(* Player, Game.generateWorld, Game.playerIsOnTheseTiles, Game.update and  *)
(* Game.getCameraPosition -- as a state machine.                           *)
(*                                                                         *)
(* The code computes on floating-point numbers; the model computes on an   *)
(* integer lattice, exactly:                                               *)
(*   time      in ticks; a quarter turn at level 0 lasts 4 ticks;          *)
(*   angles    in units of PI/24 (a quarter turn, PI/2, is 12 units);      *)
(*   lengths   in units of 1/2880 cell (x, y and z alike);                 *)
(*   distances along the diagonal (camera position, progress) multiplied   *)
(*             by Scale, so that the divisions of the camera law and of    *)
(*             the projection on the diagonal are exact;                   *)
(*   sqrt(2)   as 14/10 (so cos(PI/4) = sin(PI/4) = 7/10).                 *)
(* EPSILON is one unit of time, of angle and of altitude.  The settings    *)
(* are a configuration of GameSettings whose event times (end of a turn,   *)
(* alignment of the orientation, landing) all fall on the lattice; the     *)
(* relations between them (velocity law of Player._updateStats, camera     *)
(* law, power-up law) are the code's.                                      *)
(***************************************************************************)
EXTENDS Integers, Sequences, FiniteSets, TLC

VARIABLES
    t,              \* Game.t
    score,          \* Game.score
    gameOver,       \* Game.gameOver
    gameOverAt,     \* Game.gameOverAt
    tiles,          \* Game.tiles: row y -> (column x -> cell)
    seed,           \* Game.generator.seed
    player,         \* Game.player
    viewportStart,  \* Game.viewportStart
    viewportEnd,    \* Game.viewportEnd
    cameraPosition, \* Game.cameraPosition (times Scale)
    inputs,         \* Game.inputs
    jumpQueued,     \* Game.jumpQueued
    pending,        \* elapsedTime of the recursive call of update still to run, or Idle
    changes,        \* how many times the keys have changed (bounded by MaxInputChanges)
    ever,           \* the coordinates a cell was ever created for, and those ever consumed (history)
    query,          \* the last call made to a function of the library on its own: arguments and result
    last            \* what the last sub-step of update did (history)

vars == << t, score, gameOver, gameOverAt, tiles, seed, player, viewportStart,
           viewportEnd, cameraPosition, inputs, jumpQueued, pending, changes, ever,
           query, last >>

---------------------------------------------------------------------------
(* Program constants, in the units above *)

PI == 24
EPSILON == 1
SQRT2 == 14
SQRT2_DEN == 10

(* GameSettings *)
playerSize == 1440
playerAccelerationZ == -2
playerJumpVelocityZ == 5
gameInitialPosition == 6720
gameInitialVelocity == 120
gameAcceleration == 4
gameTimeBetweenPowerUps == 30
gameDeathZone == 1440
gameWidth == 1
rendererTilesOnScreen == 4
rendererFallingAnimationDuration == 4

(* One grid cell is 1 x 1 and playerSize is 0.5 *)
Cell == 2 * playerSize

playerInitialPosition == [x |-> 3 * playerSize, y |-> 3 * playerSize, z |-> 0]
playerAcceleration == [x |-> 0, y |-> 0, z |-> playerAccelerationZ]
playerJumpVelocity == [x |-> 0, y |-> 0, z |-> playerJumpVelocityZ]

(* Distances along the diagonal are stored multiplied by Scale *)
Scale == 2 * SQRT2_DEN * rendererFallingAnimationDuration

---------------------------------------------------------------------------
(* Bounds of the model *)

MaxT == 12          \* update is not called once t would pass MaxT
MaxSeed == 0        \* seeds 0..MaxSeed
MaxCoord == 4       \* generateWorld is called with start, end in -1..MaxCoord
MaxInputChanges == 2 \* the keys change at most MaxInputChanges times
MaxQuery == 16      \* isPowerUp is queried for x, y in 0..MaxQuery
MaxGrid == 2        \* the polygons and points given to isPointInPath have x, y in 0..MaxGrid
MaxSetting == 2     \* the settings a game is constructed with are in 0..MaxSetting
Significand == 4    \* binary digits the numbers of SpecDrift keep
MaxBegan == 40      \* under SpecDrift a quarter turn begins at a time in 0..MaxBegan

Idle == 0 - 1

(* elapsedTime of the calls of update *)
Elapsed == {1, 4}

(* the windows the renderers ask for while the game runs: the camera has moved
   one cell forward *)
Windows == {<<1, rendererTilesOnScreen + 1>>}

(* elapsedTime of the calls of update under SpecLong and SpecFair *)
ElapsedLong == {0, 12}

(* GameInputs.direction: the sums of (+-1, +-1, 0) that App.update builds *)
Directions ==
    { [x |-> 0, y |-> 0], [x |-> 1, y |-> 1], [x |-> 0, y |-> 2],
      [x |-> -1, y |-> -1] }

---------------------------------------------------------------------------
(* Arithmetic *)

Abs(a) == IF a < 0 THEN -a ELSE a

Sign(a) == IF a < 0 THEN -1 ELSE IF a > 0 THEN 1 ELSE 0

(* JavaScript's %: the remainder has the sign of the dividend *)
Rem(a, b) == IF a >= 0 THEN a % b ELSE -((-a) % b)

(* a / b for b > 0, a duration: rounded up to the next tick when it falls
   between two ticks (exact in every case where the quotient is on the lattice) *)
Quot(a, b) == -((-a) \div b)

(* a / b rounded to the nearest unit, b > 0 *)
RoundDiv(a, b) == (2 * a + b) \div (2 * b)

SetMin(S) == CHOOSE m \in S : \A n \in S : m <= n

SetMax(S) == CHOOSE m \in S : \A n \in S : m >= n

Max(a, b) == IF a >= b THEN a ELSE b

Min(a, b) == IF a <= b THEN a ELSE b

(* Math.cos and Math.sin times 1000, for angles k * PI/24, k = 0..47;
   cos(PI/4) is SQRT2 / 2 *)
CosTable ==
    << 1000, 991, 966, 924, 866, 793, 700, 609, 500, 383, 259, 131,
       0, -131, -259, -383, -500, -609, -700, -793, -866, -924, -966, -991,
       -1000, -991, -966, -924, -866, -793, -700, -609, -500, -383, -259, -131,
       0, 131, 259, 383, 500, 609, 700, 793, 866, 924, 966, 991 >>

SinTable ==
    << 0, 131, 259, 383, 500, 609, 700, 793, 866, 924, 966, 991,
       1000, 991, 966, 924, 866, 793, 700, 609, 500, 383, 259, 131,
       0, -131, -259, -383, -500, -609, -700, -793, -866, -924, -966, -991,
       -1000, -991, -966, -924, -866, -793, -700, -609, -500, -383, -259, -131 >>

Cos(theta) == CosTable[(theta % (2 * PI)) + 1]

Sin(theta) == SinTable[(theta % (2 * PI)) + 1]

---------------------------------------------------------------------------
(* Vect *)

VectZERO == [x |-> 0, y |-> 0, z |-> 0]

lengthSquared(v) == v.x * v.x + v.y * v.y

(* Vect.rotateZ on the x, y components *)
rotateZ(v, theta) ==
    [x |-> RoundDiv(v.x * Cos(theta) - v.y * Sin(theta), 1000),
     y |-> RoundDiv(v.y * Cos(theta) + v.x * Sin(theta), 1000)]

(* throw new Error('Zero vector cannot be normalized') *)
Thrown == [error |-> "Zero vector cannot be normalized"]

(* Vect.normalize of an input direction, in tenths: (1, 1)/sqrt(2) is
   (7/10, 7/10) and (0, 2)/2 is (0, 1); it throws when the length is 0 *)
normalize(v) ==
    IF lengthSquared(v) = 0 THEN Thrown
    ELSE IF v.x # 0 /\ v.y # 0
        THEN [x |-> Sign(v.x) * (SQRT2 \div 2), y |-> Sign(v.y) * (SQRT2 \div 2)]
        ELSE [x |-> Sign(v.x) * SQRT2_DEN, y |-> Sign(v.y) * SQRT2_DEN]

(* Math.atan2(y, x) of a normalized input direction: a multiple of PI/4 in
   (-PI, PI] *)
atan2(y, x) ==
    IF y = 0 THEN (IF x >= 0 THEN 0 ELSE PI)
    ELSE IF x = 0 THEN Sign(y) * (PI \div 2)
    ELSE IF x > 0 THEN Sign(y) * (PI \div 4)
    ELSE Sign(y) * (3 * (PI \div 4))

---------------------------------------------------------------------------
(* Player *)

(* Player._updateStats: the three velocities of a level *)
LevelVelocity(level) ==
    gameTimeBetweenPowerUps * gameAcceleration * (level + 2) + gameInitialVelocity

_updateStats(p) ==
    LET velocity == LevelVelocity(p.level)
    IN  [p EXCEPT !.inAirVelocity = velocity,
                  !.rotationAngularVelocity = (velocity * (PI \div 2)) \div p.side,
                  !.orientationAngularVelocity = (velocity * (PI \div 2)) \div p.side]

(* Player.constructor *)
NewPlayer ==
    _updateStats(
        [side |-> playerSize,
         position |-> playerInitialPosition,
         velocity |-> VectZERO,
         orientationAngularVelocity |-> 0,
         rotationAngularVelocity |-> 0,
         inAirVelocity |-> 0,
         level |-> 0,
         levelSince |-> 0,
         orientation |-> 0,
         rotation |-> 0,
         inRotation |-> FALSE,
         inRotationSince |-> 0,
         inAir |-> FALSE,
         inAirSince |-> 0])

setInAir(p, now) == [p EXCEPT !.inAir = TRUE, !.inAirSince = now]

(* the jump velocity given without setInAir *)
jump_Grounded(p, now) == [p EXCEPT !.velocity = playerJumpVelocity]

jump(p, now) == [setInAir(p, now) EXCEPT !.velocity = playerJumpVelocity]

(* land forgetting to clear inAir *)
land_StillInAir(p) == [p EXCEPT !.velocity = VectZERO]

land(p) == [p EXCEPT !.inAir = FALSE, !.velocity = VectZERO]

resetAltitude(p) == [p EXCEPT !.position.z = 0]

(* airTime * airTime * acceleration.z / 2 + airTime * velocity.z *)
Altitude(airTime, vz) ==
    (airTime * airTime * playerAcceleration.z) \div 2 + airTime * vz

updateAltitude(p, now) ==
    [p EXCEPT !.position.z = Altitude(now - p.inAirSince, p.velocity.z)]

(* position + direction * (inAirVelocity * dt), direction in tenths *)
flyTowards(p, direction, dt) ==
    [p EXCEPT !.position.x = @ + (direction.x * p.inAirVelocity * dt) \div SQRT2_DEN,
              !.position.y = @ + (direction.y * p.inAirVelocity * dt) \div SQRT2_DEN]

setOrientation(p, theta) == [p EXCEPT !.orientation = theta]

beginRotation(p, now) ==
    [p EXCEPT !.inRotation = TRUE, !.inRotationSince = now, !.rotation = 0]

updateRotation(p, now) ==
    [p EXCEPT !.inRotation = TRUE,
              !.rotation = (now - p.inRotationSince) * p.rotationAngularVelocity]

endRotation(p) ==
    LET step == rotateZ([x |-> p.side, y |-> 0], p.orientation)
    IN  [p EXCEPT !.inRotation = FALSE,
                  !.rotation = 0,
                  !.position.x = @ + step.x,
                  !.position.y = @ + step.y]

(* the level raised without the velocities recomputed *)
eatPowerUp_NoStats(p, now) == [p EXCEPT !.level = @ + 1, !.levelSince = now]

eatPowerUp(p, now) ==
    _updateStats([p EXCEPT !.level = @ + 1, !.levelSince = now])

(* Player.getCollisionPath: the four vertices of the footprint.  The path is
   rotated about the centre of the cube and translated to its position, so a
   vertex is position + rotateZ(vertex - (side/2, side/2), orientation). *)
FootprintOffsets(p) ==
    LET s == p.side
        h == p.side \div 2
    IN  IF p.inRotation
            THEN << [x |-> s - h, y |-> 0 - h],
                    [x |-> (s * SQRT2) \div (2 * SQRT2_DEN) - h, y |-> s \div 2 - h],
                    [x |-> s - h, y |-> s - h],
                    [x |-> (s * SQRT2) \div SQRT2_DEN - h, y |-> s \div 2 - h] >>
            ELSE << [x |-> 0 - h, y |-> 0 - h],
                    [x |-> 0 - h, y |-> s - h],
                    [x |-> s - h, y |-> s - h],
                    [x |-> s - h, y |-> 0 - h] >>

getCollisionPath(p) ==
    LET offsets == FootprintOffsets(p)
    IN  [i \in 1..4 |->
            LET r == rotateZ(offsets[i], p.orientation)
            IN  [x |-> p.position.x + r.x, y |-> p.position.y + r.y]]

---------------------------------------------------------------------------
(* Collisions *)

(* Path.normal: the z component of cross(v1 - v0, v2 - v1), normalized *)
PathNormalZ(path) ==
    Sign((path[2].x - path[1].x) * (path[3].y - path[2].y)
         - (path[2].y - path[1].y) * (path[3].x - path[2].x))

(* path.normal.dot(u.cross(w)) for u, w in the plane z = 0 *)
NormalDotCross(nz, u, w) == nz * (u.x * w.y - u.y * w.x)

(* vectorSeesAllOthersOnTheSameHalfPlane: min and max end as the least and
   the greatest of 0 and the dots; false as soon as both are non-zero *)
vectorSeesAllOthersOnTheSameHalfPlane(nz, u, vects) ==
    ~ ( (\E i \in DOMAIN vects : NormalDotCross(nz, u, vects[i]) < 0)
        /\ (\E i \in DOMAIN vects : NormalDotCross(nz, u, vects[i]) > 0) )

(* isPointInPath with vects.every in place of vects.some *)
isPointInPath_Every(v, path) ==
    LET vects == [i \in DOMAIN path |-> [x |-> path[i].x - v.x, y |-> path[i].y - v.y]]
        nz == PathNormalZ(path)
    IN  ~ \A i \in DOMAIN vects :
            vectorSeesAllOthersOnTheSameHalfPlane(nz, vects[i], vects)

isPointInPath(v, path) ==
    LET vects == [i \in DOMAIN path |-> [x |-> path[i].x - v.x, y |-> path[i].y - v.y]]
        nz == PathNormalZ(path)
    IN  ~ \E i \in DOMAIN vects :
            vectorSeesAllOthersOnTheSameHalfPlane(nz, vects[i], vects)

---------------------------------------------------------------------------
(* WorldGenerator *)

(* the field taken to be negative at (1, 1) as well *)
FieldNonNegative_Anywhere(s, x, y) == s = 0 \/ (x + 2 * y + s) % 5 # 1

(* The sign of the scalar field of isTile,
     ((1 + seed) cos(7x) + sin(6x - y) + cos(19 seed y) + (2 - seed) sin(2x + 5y)) / 5
       - (y - x)^2 / 25 + exp(-(x + y) / gameWalkZone),
   which is a fixed function of (seed, x, y): seed 0 stands for a seed whose
   field is non-negative on the whole strip, every other seed for one whose
   field is negative on a few cells of the strip.  At (1, 1) the field is
     (1.109 + 0.097 seed + cos(19 seed)) / 5 + exp(-2 / gameWalkZone),
   which is positive for every seed that Math.random() gives. *)
FieldNonNegative(s, x, y) ==
    s = 0 \/ (x = 1 /\ y = 1) \/ (x + 2 * y + s) % 5 # 1

(* isTile without the test of the width of the strip *)
isTile_NoWidth(s, x, y) == FieldNonNegative(s, x, y)

isTile(s, x, y) ==
    IF Abs(x - y) >= gameWidth THEN FALSE ELSE FieldNonNegative(s, x, y)

(* Math.floor(n(cells * SQRT2)) with
     n(d) = (-v0 + (v0 * v0 + 2 * a * d) ** 0.5) / (a * t0):
   n(d) >= k  iff  (v0 + k * a * t0)^2 <= v0^2 + 2 * a * d, and n(d) <= d / (v0 * t0) *)
FloorN(cells) ==
    LET a == gameAcceleration
        v0 == gameInitialVelocity
        t0 == gameTimeBetweenPowerUps
        d10 == cells * Cell * SQRT2          \* SQRT2_DEN * d
        reached(k) == SQRT2_DEN * (v0 + k * a * t0) * (v0 + k * a * t0)
                        <= SQRT2_DEN * v0 * v0 + 2 * a * d10
    IN  Cardinality({k \in 1..(d10 \div (SQRT2_DEN * v0 * t0) + 1) : reached(k)})

(* isPowerUp without x === y *)
isPowerUp_OffDiagonal(x, y) ==
    x >= 1 /\ FloorN(x) > FloorN(x - 1)

isPowerUp(x, y) ==
    x = y /\ x >= 1 /\ FloorN(x) > FloorN(x - 1)

(* The settings of GameSettings as the source sets them, gameAcceleration and
   gameInitialVelocity in tenths of sqrt(2):
     gameAcceleration = 0.1 * SQRT2, gameInitialVelocity = 1.0 * SQRT2,
     gameTimeBetweenPowerUps = 10 *)
sourceAcceleration == 1
sourceInitialVelocity == 10
sourceTimeBetweenPowerUps == 10

(* Math.floor(n(cells * SQRT2)) for a = a10 * sqrt(2) / 10 and
   v0 = v10 * sqrt(2) / 10, exactly:
     n(d) >= k  iff  (v0 + k * a * t0)^2 <= v0^2 + 2 * a * d
   and, with d = cells * sqrt(2), times 50:
     (v10 + k * a10 * t0)^2 <= v10^2 + 20 * a10 * cells;
   n(d) <= d / (v0 * t0) = 10 * cells / (v10 * t0) *)
FloorNWith(a10, v10, t0, cells) ==
    Cardinality({k \in 1..((10 * cells) \div (v10 * t0) + 1) :
                    (v10 + k * a10 * t0) * (v10 + k * a10 * t0)
                        <= v10 * v10 + 20 * a10 * cells})

(* isPowerUp comparing the two floors with >= *)
isPowerUpWith_GE(a10, v10, t0, x, y) ==
    x = y /\ x >= 1 /\ FloorNWith(a10, v10, t0, x) >= FloorNWith(a10, v10, t0, x - 1)

(* WorldGenerator.isPowerUp under given settings *)
isPowerUpWith(a10, v10, t0, x, y) ==
    x = y /\ x >= 1 /\ FloorNWith(a10, v10, t0, x) > FloorNWith(a10, v10, t0, x - 1)

---------------------------------------------------------------------------
(* Game: the world *)

GameCell == [kind |-> "GameCell", consumed |-> FALSE, consumedSince |-> 0]
Tile == [kind |-> "Tile", consumed |-> FALSE, consumedSince |-> 0]
PowerUpTile == [kind |-> "PowerUpTile", consumed |-> FALSE, consumedSince |-> 0]

(* instanceof Tile: PowerUpTile extends Tile *)
InstanceOfTile(c) == c.kind \in {"Tile", "PowerUpTile"}

(* y in tiles && x in tiles[y] *)
Stored(ts, x, y) == y \in DOMAIN ts /\ x \in DOMAIN ts[y]

(* the cell generateWorld stores at (x, y) *)
NewCell(s, x, y) ==
    IF isPowerUp(x, y) THEN PowerUpTile
    ELSE IF isTile(s, x, y) THEN Tile
    ELSE GameCell

(* generateWorld filling the window when end >= this.viewportEnd *)
generateWorld_GuardGE(ts, s, vStart, vEnd, start0, end) ==
    LET start == Max(0, start0)
        evicted == IF start > vStart THEN vStart..(start - 1) ELSE {}
        kept == [y \in (DOMAIN ts) \ evicted |-> ts[y]]
        rows == IF end >= vEnd THEN start..end ELSE {}
        Row(y) == IF y \in DOMAIN kept THEN kept[y] ELSE << >>
        Skip(x, y) == (x < vEnd /\ y < vEnd) \/ x \in DOMAIN Row(y)
        NewRow(y) ==
            [x \in (DOMAIN Row(y)) \cup {c \in start..end : ~Skip(c, y)} |->
                IF x \in DOMAIN Row(y) THEN Row(y)[x] ELSE NewCell(s, x, y)]
    IN  [y \in (DOMAIN kept) \cup rows |->
            IF y \in rows THEN NewRow(y) ELSE kept[y]]

(* Game.generateWorld: the tiles after the call *)
generateWorld(ts, s, vStart, vEnd, start0, end) ==
    LET start == Max(0, start0)
        evicted == IF start > vStart THEN vStart..(start - 1) ELSE {}
        kept == [y \in (DOMAIN ts) \ evicted |-> ts[y]]
        rows == IF end > vEnd THEN start..end ELSE {}
        Row(y) == IF y \in DOMAIN kept THEN kept[y] ELSE << >>
        Skip(x, y) == (x < vEnd /\ y < vEnd) \/ x \in DOMAIN Row(y)
        NewRow(y) ==
            [x \in (DOMAIN Row(y)) \cup {c \in start..end : ~Skip(c, y)} |->
                IF x \in DOMAIN Row(y) THEN Row(y)[x] ELSE NewCell(s, x, y)]
    IN  [y \in (DOMAIN kept) \cup rows |->
            IF y \in rows THEN NewRow(y) ELSE kept[y]]

(* the coordinates <<x, y>> of the cells stored in tiles *)
Coordinates(ts) == UNION {{<<x, y>> : x \in DOMAIN ts[y]} : y \in DOMAIN ts}

(* the coordinates at which a call of generateWorld that takes the tiles from
   ts to new has stored a new cell: the rows it deletes (below start) and the
   rows it fills (start..end) are disjoint *)
Generated(ts, new) == Coordinates(new) \ Coordinates(ts)

(* Game.playerIsOnTheseTiles: the coordinates <<x, y>> of the tiles found *)
NearestCorner(pos, x, y) ==
    LET d(c) == (pos.x - c.x) * (pos.x - c.x) + (pos.y - c.y) * (pos.y - c.y)
                    + pos.z * pos.z
        pick(u, v) == IF d(u) < d(v) THEN u ELSE v
        c1 == [x |-> x * Cell, y |-> y * Cell]
        c2 == [x |-> (x + 1) * Cell, y |-> y * Cell]
        c3 == [x |-> x * Cell, y |-> (y + 1) * Cell]
        c4 == [x |-> (x + 1) * Cell, y |-> (y + 1) * Cell]
    IN  pick(pick(pick(c1, c2), c3), c4)

TilesOfPath(playerPath, position, ts) ==
    LET xs == {playerPath[i].x \div Cell : i \in 1..4}
        ys == {playerPath[i].y \div Cell : i \in 1..4}
        IsTileAt(x, y) == Stored(ts, x, y) /\ InstanceOfTile(ts[y][x])
        underVertex == {c \in {<<playerPath[i].x \div Cell, playerPath[i].y \div Cell>> : i \in 1..4} :
                            IsTileAt(c[1], c[2])}
        left == SetMin(xs)
        right == SetMax(xs)
        bottom == SetMin(ys)
        top == SetMax(ys)
        underCorner == {c \in (left..right) \X (bottom..top) :
                            /\ IsTileAt(c[1], c[2])
                            /\ isPointInPath(NearestCorner(position, c[1], c[2]), playerPath)}
    IN  underVertex \cup underCorner

playerIsOnTheseTiles(p, ts) ==
    UNION {TilesOfPath(playerPath, p.position, ts) : playerPath \in {getCollisionPath(p)}}

---------------------------------------------------------------------------
(* Game.getCameraPosition, times Scale *)

CameraLaw(time) ==
    (Scale \div 2) * gameAcceleration * time * time
        + Scale * gameInitialVelocity * time + Scale * gameInitialPosition

(* the second return with dt = t - gameOverAt, the minimum with the duration
   of the animation forgotten *)
CameraAfter_NoHold(overAt, time) ==
    LET D == rendererFallingAnimationDuration
        v == gameAcceleration * overAt + gameInitialVelocity
        dt == time - overAt
    IN  CameraLaw(overAt)
            + (IF D > 0 THEN 0 - (Scale \div (2 * D)) * v * dt * dt ELSE 0)
            + Scale * v * dt

(* the second return of getCameraPosition:
   getCameraPosition(gameOverAt) + a / 2 * dt * dt + v * dt, with a = -v / D
   when D > 0, else 0 *)
CameraAfter(overAt, time) ==
    LET D == rendererFallingAnimationDuration
        v == gameAcceleration * overAt + gameInitialVelocity
        dt == Min(D, time - overAt)
    IN  CameraLaw(overAt)
            + (IF D > 0 THEN 0 - (Scale \div (2 * D)) * v * dt * dt ELSE 0)
            + Scale * v * dt

CameraPositionAt(over, overAt, time) ==
    IF ~over \/ time <= overAt THEN CameraLaw(time) ELSE CameraAfter(overAt, time)

getCameraPosition(time) == CameraPositionAt(gameOver, gameOverAt, time)

(* new Vect(SQRT2 / 2, SQRT2 / 2, 0).dot(position), times Scale *)
Distance(position) ==
    (Scale \div (2 * SQRT2_DEN)) * SQRT2 * (position.x + position.y)

(* Math.floor(distance - distance of playerInitialPosition), in cells *)
Progress(position) ==
    (Distance(position) - Distance(playerInitialPosition)) \div (Scale * Cell)

---------------------------------------------------------------------------
(* Game.update: the stages of one sub-step, the body of update(elapsedTime) up
   to the recursive call *)

(* the direction normalized whatever its length *)
InputDirection_Always(in) == normalize(in.direction)

(* let direction = this.inputs.direction, normalized if its squared length
   is > 0 *)
InputDirection(in) ==
    IF lengthSquared(in.direction) > 0 THEN normalize(in.direction) ELSE in.direction

(* the farthest event picked instead of the closest *)
NextEvent_Max(dts) == SetMax(dts)

(* Picking the closest event: Math.min(...dts) *)
NextEvent(dts) == SetMin(dts)

(* Figure out next event *)
Horizons(p, now, in, elapsedTime) ==
    LET direction == InputDirection(in)
        moving == lengthSquared(direction) > 0
        dtRotation ==
            IF p.inRotation
                THEN Quot((PI \div 2) - p.rotation, p.rotationAngularVelocity)
                ELSE 0
        dtFalling ==
            IF p.inAir
                THEN (2 * p.velocity.z) \div (0 - playerAcceleration.z)
                        - (now - p.inAirSince)
                ELSE 0
        angle == IF moving THEN atan2(direction.y, direction.x) ELSE 0
        turning == moving /\ ~p.inRotation
                    /\ Abs(Rem(angle - p.orientation, PI \div 2)) > EPSILON
        diff == Abs(angle - p.orientation) % (PI \div 2)
        dtClockwise == Quot(diff, p.orientationAngularVelocity)
        dtCounterclockwise == Quot((PI \div 2) - diff, p.orientationAngularVelocity)
        dtOrientation ==
            IF turning THEN Min(dtClockwise, dtCounterclockwise) ELSE 0
        orientationClockwise ==
            IF turning
                THEN (IF dtCounterclockwise < dtClockwise
                        THEN ~(angle < p.orientation) ELSE angle < p.orientation)
                ELSE FALSE
        dts == {elapsedTime}
                \cup (IF p.inRotation THEN {dtRotation} ELSE {})
                \cup (IF p.inAir /\ dtFalling > EPSILON THEN {dtFalling} ELSE {})
                \cup (IF turning THEN {dtOrientation} ELSE {})
    IN  [direction |-> direction, moving |-> moving, angle |-> angle,
         dtRotation |-> dtRotation, dtFalling |-> dtFalling,
         dtOrientation |-> dtOrientation, turning |-> turning,
         orientationClockwise |-> orientationClockwise,
         dts |-> dts,
         dt |-> NextEvent(dts)]

(* Finishing rotation, reaching the ground, reaching correct orientation *)
Advance(p, h, now) ==
    LET p1 == IF h.dt = h.dtRotation THEN endRotation(p)
              ELSE IF p.inRotation THEN updateRotation(p, now) ELSE p
        p2 == IF h.dt = h.dtFalling THEN resetAltitude(p1)
              ELSE IF p1.inAir THEN updateAltitude(p1, now) ELSE p1
    IN  IF h.dt = h.dtOrientation THEN setOrientation(p2, h.angle) ELSE p2

(* We have to check collisions now: the tiles playerIsOnTheseTiles returns
   when position.z === 0 *)
TilesUnder(p, ts) ==
    IF p.position.z = 0 THEN playerIsOnTheseTiles(p, ts) ELSE {}

(* the power-ups eaten whether or not the avatar is mid-turn *)
Eaten_MidTurn(p, ts, on) ==
    {c \in on : ts[c[2]][c[1]].kind = "PowerUpTile" /\ ~ts[c[2]][c[1]].consumed}

(* the tiles of the loop that are a PowerUpTile not yet consumed *)
Eaten(p, ts, on) ==
    IF p.inRotation THEN {}
    ELSE {c \in on : ts[c[2]][c[1]].kind = "PowerUpTile" /\ ~ts[c[2]][c[1]].consumed}

(* eatPowerUp, once per tile eaten *)
RECURSIVE eatPowerUps(_, _, _)
eatPowerUps(p, n, now) ==
    IF n = 0 THEN p ELSE eatPowerUps(eatPowerUp(p, now), n - 1, now)

(* the player after the collision block *)
Collide(p, on, eaten, now) ==
    IF p.position.z = 0
        THEN (IF on # {} THEN eatPowerUps(land(p), Cardinality(eaten), now)
              ELSE IF ~p.inAir THEN setInAir(p, now) ELSE p)
        ELSE p

(* the tiles after the collision block *)
Consume(ts, eaten, now) ==
    IF eaten = {} THEN ts
    ELSE [y \in DOMAIN ts |-> [x \in DOMAIN ts[y] |->
            IF <<x, y>> \in eaten
                THEN [ts[y][x] EXCEPT !.consumed = TRUE, !.consumedSince = now]
                ELSE ts[y][x]]]

(* the test of the jump without !this.player.inRotation *)
JumpFires_MidTurn(p, in, queued) == (in.jump \/ queued) /\ ~p.inAir

(* Examining inputs *)
JumpFires(p, in, queued) == (in.jump \/ queued) /\ ~p.inAir /\ ~p.inRotation

ExamineInputs(p, in, queued, now) ==
    IF JumpFires(p, in, queued) THEN jump(p, now) ELSE p

(* the jump never queued *)
NextJumpQueued_Never(p, in, queued) ==
    IF in.jump \/ queued
        THEN (IF ~p.inAir /\ ~p.inRotation THEN FALSE ELSE queued)
        ELSE queued

NextJumpQueued(p, in, queued) ==
    IF in.jump \/ queued
        THEN (IF ~p.inAir /\ ~p.inRotation THEN FALSE
              ELSE IF ~p.inAir THEN TRUE ELSE queued)
        ELSE queued

(* a quarter turn begun whether or not the avatar is airborne *)
ChangeOrientation_Airborne(p, h, now) ==
    IF h.moving /\ ~p.inRotation
        THEN LET p1 == IF Abs(Rem(h.angle - p.orientation, PI \div 2)) < EPSILON
                          THEN beginRotation(setOrientation(p, h.angle), now)
                          ELSE setOrientation(p, p.orientation
                                  + (IF h.orientationClockwise THEN -1 ELSE 1)
                                      * h.dt * p.orientationAngularVelocity)
             IN  IF p1.position.z >= 0 THEN flyTowards(p1, h.direction, h.dt) ELSE p1
        ELSE p

(* Changing orientation *)
ChangeOrientation(p, h, now) ==
    IF h.moving /\ ~p.inRotation
        THEN LET p1 == IF Abs(Rem(h.angle - p.orientation, PI \div 2)) < EPSILON
                          THEN (IF ~p.inAir
                                  THEN beginRotation(setOrientation(p, h.angle), now)
                                  ELSE setOrientation(p, h.angle))
                          ELSE setOrientation(p, p.orientation
                                  + (IF h.orientationClockwise THEN -1 ELSE 1)
                                      * h.dt * p.orientationAngularVelocity)
             IN  IF p1.position.z >= 0 THEN flyTowards(p1, h.direction, h.dt) ELSE p1
        ELSE p

(* the score without Math.max *)
NextScore_NoMax(old, position) == Progress(position)

(* Compute score *)
NextScore(old, position) == Max(old, Progress(position))

(* the test of the death without the altitude *)
Dies_CameraOnly(position, camera) ==
    Distance(position) < camera - Scale * gameDeathZone

(* ded? *)
Dies(position, camera) ==
    Distance(position) < camera - Scale * gameDeathZone \/ position.z < -EPSILON

(* the test of the death without !this.gameOver *)
GameOverNow_Again(over, position, camera) == Dies(position, camera)

(* if (!this.gameOver && (...)) *)
GameOverNow(over, position, camera) == ~over /\ Dies(position, camera)

(* the camera position computed before this.t is advanced *)
NextCameraPosition_Stale(now) == getCameraPosition(t)

(* Compute camera position: getCameraPosition(this.t), this.t already advanced *)
NextCameraPosition(now) == getCameraPosition(now)

(* the recursive call made whatever time is left *)
Recurses_NoThreshold(elapsedTime, dt) == elapsedTime - dt >= 0

(* Do we need to compute another event? *)
Recurses(elapsedTime, dt) == elapsedTime - dt > EPSILON

---------------------------------------------------------------------------
(* The state machine *)

(* what the last step was: no sub-step of update, or a sub-step with what it
   saw: whether it was a recursive call, whether the avatar was airborne when
   it began, whether the collision block found tiles under the avatar at
   altitude 0, and whether the avatar was on the ground and turning at the
   point the inputs were examined; or a call generateWorld(start, end), with
   its arguments <<start, end>>; or a call of update that threw.  A sub-step
   also records its elapsedTime, the time at which it began, the candidate
   durations dts it chose from, and the elapsedTime and the beginning of the
   call of update made by the application that it belongs to, and the events
   that the sub-steps of that call have resolved so far, in their order *)
NoStep ==
    [substep |-> FALSE, recursive |-> FALSE, wasInAir |-> FALSE,
     landed |-> FALSE, grounded |-> FALSE, turning |-> FALSE, window |-> << >>,
     threw |-> FALSE, elapsed |-> 0, began |-> 0, callElapsed |-> 0, callBegan |-> 0,
     horizons |-> {}, events |-> << >>]

(* Game.constructor, with the seed WorldGenerator.constructor draws *)
NewGameOf(seeds) ==
    /\ seed \in seeds
    /\ t = 0
    /\ score = 0
    /\ gameOver = FALSE
    /\ gameOverAt = 0
    /\ player = NewPlayer
    /\ tiles = generateWorld((1 :> (1 :> Tile)), seed, 0, 0, 0, rendererTilesOnScreen)
    /\ viewportStart = 0
    /\ viewportEnd = rendererTilesOnScreen
    /\ cameraPosition = Scale * gameInitialPosition
    /\ inputs = [direction |-> [x |-> 0, y |-> 0], jump |-> FALSE]
    /\ jumpQueued = FALSE
    /\ pending = Idle
    /\ changes = 0
    /\ ever = [created |-> Coordinates(tiles), consumed |-> {}]
    /\ last = NoStep

NewGame == NewGameOf(0..MaxSeed)

(* a new game; no function of the library has been called on its own *)
Init == NewGame /\ query = << >>

(* The avatar is within the region the model explores *)
InArena ==
    /\ player.position.x >= 0 - Cell /\ player.position.x <= (MaxCoord + 1) * Cell
    /\ player.position.y >= 0 - Cell /\ player.position.y <= (MaxCoord + 1) * Cell

(* the avatar at the point where a sub-step update(elapsedTime) of the current
   state reaches "We have to check collisions now": after the events of the
   sub-step *)
Advanced(elapsedTime) ==
    LET h == Horizons(player, t, inputs, elapsedTime)
    IN  Advance(player, h, t + h.dt)

(* the avatar at the point where a sub-step update(elapsedTime) of the current
   state reaches "Changing orientation": after the events of the sub-step,
   the collisions and the jump *)
Examined(elapsedTime) ==
    LET h == Horizons(player, t, inputs, elapsedTime)
        now == t + h.dt
        advanced == Advance(player, h, now)
        on == TilesUnder(advanced, tiles)
        collided == Collide(advanced, on, Eaten(advanced, tiles, on), now)
    IN  ExamineInputs(collided, inputs, jumpQueued, now)

(* the events a sub-step resolves, each with the time at which it does: the
   end of the quarter turn under way (dt === dtRotation), the landing of the
   airborne avatar (dt === dtFalling), the alignment of the orientation
   (dt === dtOrientation) *)
Resolved(p, h, now) ==
    (IF p.inRotation /\ h.dt = h.dtRotation THEN << <<"turn", now>> >> ELSE << >>)
    \o (IF p.inAir /\ h.dt = h.dtFalling THEN << <<"landing", now>> >> ELSE << >>)
    \o (IF h.turning /\ h.dt = h.dtOrientation THEN << <<"aligned", now>> >> ELSE << >>)

(* One sub-step of update(elapsedTime): the body of update up to the recursive
   call, which is left pending.  Each stage of the body is computed once, in
   the order of the code. *)
UpdateBody(elapsedTime, recursive) ==
    \E h \in {Horizons(player, t, inputs, elapsedTime)} :
    \E now \in {t + h.dt} :
    \E advanced \in {Advance(player, h, now)} :
    \E on \in {TilesUnder(advanced, tiles)} :
    \E eaten \in {Eaten(advanced, tiles, on)} :
    \E collided \in {Collide(advanced, on, eaten, now)} :
    \E oriented \in {ChangeOrientation(
                        ExamineInputs(collided, inputs, jumpQueued, now), h, now)} :
    \E camera \in {NextCameraPosition(now)} :
    \E dies \in {GameOverNow(gameOver, oriented.position, camera)} :
        /\ t' = now
        /\ player' = oriented
        /\ tiles' = Consume(tiles, eaten, now)
        /\ jumpQueued' = NextJumpQueued(collided, inputs, jumpQueued)
        /\ cameraPosition' = camera
        /\ score' = NextScore(score, oriented.position)
        /\ gameOver' = (gameOver \/ dies)
        /\ gameOverAt' = IF dies THEN now ELSE gameOverAt
        /\ pending' = IF Recurses(elapsedTime, h.dt) THEN elapsedTime - h.dt ELSE Idle
        /\ last' = [substep |-> TRUE, recursive |-> recursive,
                    wasInAir |-> player.inAir, landed |-> on # {},
                    grounded |-> ~collided.inAir, turning |-> collided.inRotation,
                    window |-> << >>, threw |-> FALSE,
                    elapsed |-> elapsedTime, began |-> t,
                    callElapsed |-> IF recursive THEN last.callElapsed ELSE elapsedTime,
                    callBegan |-> IF recursive THEN last.callBegan ELSE t,
                    horizons |-> h.dts,
                    events |-> (IF recursive THEN last.events ELSE << >>)
                                    \o Resolved(player, h, now)]
        /\ ever' = [ever EXCEPT !.consumed = @ \cup eaten]
        /\ UNCHANGED << seed, viewportStart, viewportEnd, inputs, changes, query >>

(* The game as update reads and writes it *)
GameState ==
    [t |-> t, player |-> player, tiles |-> tiles, jumpQueued |-> jumpQueued,
     cameraPosition |-> cameraPosition, score |-> score,
     gameOver |-> gameOver, gameOverAt |-> gameOverAt]

(* The game g after the body of update(elapsedTime) up to the recursive call,
   and the elapsedTime - dt of that call (Idle when update returns): the
   stages of UpdateBody, applied to g *)
SubStepOf(g, elapsedTime) ==
    LET h == Horizons(g.player, g.t, inputs, elapsedTime)
        now == g.t + h.dt
        advanced == Advance(g.player, h, now)
        on == TilesUnder(advanced, g.tiles)
        eaten == Eaten(advanced, g.tiles, on)
        collided == Collide(advanced, on, eaten, now)
        oriented == ChangeOrientation(
                        ExamineInputs(collided, inputs, g.jumpQueued, now), h, now)
        camera == CameraPositionAt(g.gameOver, g.gameOverAt, now)
        dies == GameOverNow(g.gameOver, oriented.position, camera)
    IN  [game |-> [t |-> now, player |-> oriented,
                   tiles |-> Consume(g.tiles, eaten, now),
                   jumpQueued |-> NextJumpQueued(collided, inputs, g.jumpQueued),
                   cameraPosition |-> camera,
                   score |-> NextScore(g.score, oriented.position),
                   gameOver |-> (g.gameOver \/ dies),
                   gameOverAt |-> IF dies THEN now ELSE g.gameOverAt],
         rest |-> IF Recurses(elapsedTime, h.dt) THEN elapsedTime - h.dt ELSE Idle]

(* The game g after the call update(elapsedTime) has returned: its sub-steps
   one after the other *)
RECURSIVE CallOf(_, _)
CallOf(g, elapsedTime) ==
    IF InputDirection(inputs) = Thrown THEN g
    ELSE LET step == SubStepOf(g, elapsedTime)
         IN  IF step.rest = Idle THEN step.game ELSE CallOf(step.game, step.rest)

(* One sub-step of update(elapsedTime), or the error normalize throws before
   update has assigned anything: the error leaves update and the calls of
   update under way *)
UpdateStep(elapsedTime, recursive) ==
    IF InputDirection(inputs) = Thrown
        THEN /\ pending' = Idle
             /\ last' = [NoStep EXCEPT !.threw = TRUE]
             /\ UNCHANGED << t, score, gameOver, gameOverAt, tiles, seed, player,
                             viewportStart, viewportEnd, cameraPosition, inputs,
                             jumpQueued, changes, ever, query >>
        ELSE UpdateBody(elapsedTime, recursive)

(* App.update calls game.update(dt) *)
Update(elapsedTime) ==
    /\ pending = Idle
    /\ t + elapsedTime <= MaxT
    /\ InArena
    /\ UpdateStep(elapsedTime, FALSE)

(* return this.update(elapsedTime - dt) *)
UpdateRecurse ==
    /\ pending # Idle
    /\ UpdateStep(pending, TRUE)

(* App.update writes the keys into the GameInputs of the game *)
SetInputs(direction, jumpKey) ==
    /\ pending = Idle
    /\ changes < MaxInputChanges
    /\ inputs # [direction |-> direction, jump |-> jumpKey]
    /\ inputs' = [direction |-> direction, jump |-> jumpKey]
    /\ changes' = changes + 1
    /\ last' = NoStep
    /\ UNCHANGED << t, score, gameOver, gameOverAt, tiles, seed, player, viewportStart,
                    viewportEnd, cameraPosition, jumpQueued, pending, ever, query >>

(* GameRenderer calls game.generateWorld(start, end) *)
GenerateWorld(start, end) ==
    /\ pending = Idle
    /\ tiles' = generateWorld(tiles, seed, viewportStart, viewportEnd, start, end)
    /\ ever' = [ever EXCEPT !.created = @ \cup Generated(tiles, tiles')]
    /\ viewportStart' = Max(0, start)
    /\ viewportEnd' = end
    /\ last' = [NoStep EXCEPT !.window = <<start, end>>]
    /\ UNCHANGED << t, score, gameOver, gameOverAt, seed, player, cameraPosition,
                    inputs, jumpQueued, pending, changes, query >>

(* The game: frames of Elapsed ticks and the keys of the player *)
Next ==
    \/ \E e \in Elapsed : Update(e)
    \/ UpdateRecurse
    \/ \E d \in Directions, j \in BOOLEAN : SetInputs(d, j)

Spec == Init /\ [][Next]_vars

(* The game with long frames and frames of no length, and its renderers, which
   ask for the next window as the camera moves *)
NextLong ==
    \/ \E e \in ElapsedLong : Update(e)
    \/ UpdateRecurse
    \/ \E d \in Directions, j \in BOOLEAN : SetInputs(d, j)
    \/ \E w \in Windows : GenerateWorld(w[1], w[2])

SpecLong == Init /\ [][NextLong]_vars

(* The game with long frames and frames of no length: update is a function
   call, so once update(elapsedTime) has begun its recursive calls run until
   it returns *)
NextFair ==
    \/ \E e \in ElapsedLong : Update(e)
    \/ UpdateRecurse
    \/ \E d \in Directions, j \in BOOLEAN : SetInputs(d, j)

SpecFair == Init /\ [][NextFair]_vars /\ WF_vars(UpdateRecurse)

(* App.update writes the keys: the jump key has been released *)
ReleaseJump ==
    /\ pending = Idle
    /\ inputs.jump
    /\ inputs' = [inputs EXCEPT !.jump = FALSE]
    /\ last' = NoStep
    /\ UNCHANGED << t, score, gameOver, gameOverAt, tiles, seed, player, viewportStart,
                    viewportEnd, cameraPosition, jumpQueued, pending, changes, ever,
                    query >>

(* The game with a jump key that is pressed and released *)
NextQueue ==
    \/ \E e \in Elapsed : Update(e)
    \/ UpdateRecurse
    \/ \E d \in Directions, j \in BOOLEAN : SetInputs(d, j)
    \/ ReleaseJump

SpecQueue == Init /\ [][NextQueue]_vars

(* The world alone: the renderers ask for one window after the other *)
NextWorld ==
    \E start \in (0 - 1)..MaxCoord, end \in (0 - 1)..MaxCoord :
        start <= end /\ GenerateWorld(start, end)

SpecWorld == Init /\ [][NextWorld]_vars

(* the windows of a tour: the renderers' window moves forward, shrinks, moves
   back and grows again as the camera moves and the screen is resized *)
TourWindows ==
    { <<3, 4>>, <<0, 1>>, <<0, 4>>, <<2, 2>>, <<0 - 1, 3>>, <<1, 4>> }

(* the seeds of SpecSeeds: seeds of both kinds *)
Seeds == 0..(MaxSeed + 3)

(* A walk along the diagonal under any seed: long frames and frames of no
   length, while the renderers ask for the windows of a tour *)
NextSeeds ==
    \/ \E e \in ElapsedLong : Update(e)
    \/ UpdateRecurse
    \/ SetInputs([x |-> 1, y |-> 1], FALSE)
    \/ \E w \in TourWindows : GenerateWorld(w[1], w[2])

SpecSeeds == NewGameOf(Seeds) /\ query = << >> /\ [][NextSeeds]_vars

(* A walk along the diagonal, over the power-ups, while the renderers ask for
   the windows of a tour *)
NextTour ==
    \/ \E e \in ElapsedLong : Update(e)
    \/ UpdateRecurse
    \/ SetInputs([x |-> 1, y |-> 1], FALSE)
    \/ \E w \in TourWindows : GenerateWorld(w[1], w[2])

SpecTour == Init /\ [][NextTour]_vars

(* A call generator.isPowerUp(x, y) under the settings of the source *)
QueryIsPowerUp(x, y) ==
    /\ query' = [x |-> x, y |-> y,
                 floor |-> FloorNWith(sourceAcceleration, sourceInitialVelocity,
                                      sourceTimeBetweenPowerUps, x),
                 floorBefore |-> FloorNWith(sourceAcceleration, sourceInitialVelocity,
                                            sourceTimeBetweenPowerUps, x - 1),
                 result |-> isPowerUpWith(sourceAcceleration, sourceInitialVelocity,
                                          sourceTimeBetweenPowerUps, x, y)]
    /\ UNCHANGED << t, score, gameOver, gameOverAt, tiles, seed, player, viewportStart,
                    viewportEnd, cameraPosition, inputs, jumpQueued, pending, changes,
                    ever, last >>

(* The generator queried over the first cells of the world *)
NextPowerUps == \E x \in 0..MaxQuery, y \in 0..MaxQuery : QueryIsPowerUp(x, y)

SpecPowerUps == Init /\ [][NextPowerUps]_vars

(* Math.floor(n(cells * SQRT2)) as the numbers of JavaScript give it: every
   operation of n rounds its result and x ** 0.5 is an approximation the
   implementation chooses, so the value computed lies ulps units in the last
   place from n(d); where n(d) is exactly an integer k, that is where
     (v0 + k * a * t0)^2 = v0^2 + 2 * a * d,
   a value below it has the floor k - 1, and everywhere else n(d) is far
   from an integer and the floor is the exact one *)
RoundedFloorNWith(a10, v10, t0, cells, ulps) ==
    LET exact == FloorNWith(a10, v10, t0, cells)
        integral == \E k \in 1..exact :
                        (v10 + k * a10 * t0) * (v10 + k * a10 * t0)
                            = v10 * v10 + 20 * a10 * cells
    IN  IF integral /\ ulps < 0 THEN exact - 1 ELSE exact

(* A call generator.isPowerUp(x, y) under the settings of the source, on
   rounded numbers: ulps and ulpsBefore are the errors of n(x * SQRT2) and of
   n((x - 1) * SQRT2) *)
QueryIsPowerUpRounded(x, y, ulps, ulpsBefore) ==
    /\ LET floor == RoundedFloorNWith(sourceAcceleration, sourceInitialVelocity,
                                      sourceTimeBetweenPowerUps, x, ulps)
           floorBefore == RoundedFloorNWith(sourceAcceleration, sourceInitialVelocity,
                                            sourceTimeBetweenPowerUps, x - 1, ulpsBefore)
       IN  query' = [x |-> x, y |-> y, floor |-> floor, floorBefore |-> floorBefore,
                     result |-> (x = y /\ x >= 1 /\ floor > floorBefore)]
    /\ UNCHANGED << t, score, gameOver, gameOverAt, tiles, seed, player, viewportStart,
                    viewportEnd, cameraPosition, inputs, jumpQueued, pending, changes,
                    ever, last >>

NextPowerUpsRounded ==
    \E x \in 0..MaxQuery, y \in 0..MaxQuery, ulps \in -1..1, ulpsBefore \in -1..1 :
        QueryIsPowerUpRounded(x, y, ulps, ulpsBefore)

SpecPowerUpsRounded == Init /\ [][NextPowerUpsRounded]_vars

(* The points of the plane z = 0 with coordinates in 0..MaxGrid *)
GridPoints == [x : 0..MaxGrid, y : 0..MaxGrid]

(* the z component of (b - a) x (c - b): the turn of the path at b *)
Turn(a, b, c) == (b.x - a.x) * (c.y - b.y) - (b.y - a.y) * (c.x - b.x)

(* the turns at the vertices of a closed path *)
Turns(path) ==
    LET n == Len(path)
    IN  {Turn(path[i], path[(i % n) + 1], path[((i + 1) % n) + 1]) : i \in 1..n}

(* Convex, consistently wound polygons of three or four vertices: the path
   turns the same way, and strictly, at every vertex (for at most four
   vertices such a path winds once) *)
ConvexPaths ==
    {path \in [1..3 -> GridPoints] \cup [1..4 -> GridPoints] :
        (\A d \in Turns(path) : d > 0) \/ (\A d \in Turns(path) : d < 0)}

(* new Path(vertices) and a point of its plane, ready for isPointInPath *)
NewPathQuery ==
    /\ NewGame
    /\ \E path \in ConvexPaths, v \in GridPoints :
            query = [point |-> v, path |-> path, called |-> FALSE, result |-> FALSE]

(* Collisions.isPointInPath(point, path) *)
CallIsPointInPath ==
    /\ ~query.called
    /\ query' = [query EXCEPT !.called = TRUE,
                              !.result = isPointInPath(query.point, query.path)]
    /\ UNCHANGED << t, score, gameOver, gameOverAt, tiles, seed, player, viewportStart,
                    viewportEnd, cameraPosition, inputs, jumpQueued, pending, changes,
                    ever, last >>

SpecPaths == NewPathQuery /\ [][CallIsPointInPath]_vars

(* A GameSettings whose gameAcceleration, gameTimeBetweenPowerUps, playerSize
   and playerAcceleration.z the caller has set; gameInitialVelocity and
   playerJumpVelocity.z are positive, as the source sets them *)
SettingsValues ==
    [gameAcceleration : 0..MaxSetting, gameTimeBetweenPowerUps : 0..MaxSetting,
     playerSize : 0..MaxSetting, playerAccelerationZ : (0 - MaxSetting)..0]

(* num / den in JavaScript: a number for den # 0, NaN for 0 / 0, an infinity
   for the other divisions by 0 *)
Quotient(num, den) ==
    IF den # 0 THEN "finite" ELSE IF num = 0 THEN "NaN" ELSE "Infinity"

(* n(d) of isPowerUp for d > 0:
   (-v0 + (v0 * v0 + 2 * a * d) ** 0.5) / (a * t0); the numerator is 0 iff a is 0 *)
PowerUpIndexWith(c) ==
    Quotient(IF c.gameAcceleration = 0 THEN 0 ELSE 1,
             c.gameAcceleration * c.gameTimeBetweenPowerUps)

(* rotationAngularVelocity of _updateStats: velocity / this.side * PI / 2, with
   velocity = t0 * a * (level + 2) + v0 > 0 *)
AngularVelocityWith(c) == Quotient(1, c.playerSize)

(* -2 * velocity.z / acceleration.z of update, velocity.z > 0 after a jump *)
TimeToLandWith(c) == Quotient(1, c.playerAccelerationZ)

(* settings to construct a game with *)
NewSettings ==
    /\ NewGame
    /\ \E c \in SettingsValues :
            query = [settings |-> c, constructed |-> FALSE, rejected |-> FALSE,
                     powerUpIndex |-> "none", angularVelocity |-> "none",
                     timeToLand |-> "none"]

(* new Game(settings, inputs): no constructor examines the settings; new
   Player calls _updateStats and generateWorld calls isPowerUp *)
ConstructGame ==
    /\ ~query.constructed
    /\ query' = [query EXCEPT !.constructed = TRUE,
                              !.rejected = FALSE,
                              !.angularVelocity = AngularVelocityWith(query.settings),
                              !.powerUpIndex = PowerUpIndexWith(query.settings)]
    /\ UNCHANGED << t, score, gameOver, gameOverAt, tiles, seed, player, viewportStart,
                    viewportEnd, cameraPosition, inputs, jumpQueued, pending, changes,
                    ever, last >>

(* the first update after a jump computes the time to land *)
UpdateInAir ==
    /\ query.constructed
    /\ query.timeToLand = "none"
    /\ query' = [query EXCEPT !.timeToLand = TimeToLandWith(query.settings)]
    /\ UNCHANGED << t, score, gameOver, gameOverAt, tiles, seed, player, viewportStart,
                    viewportEnd, cameraPosition, inputs, jumpQueued, pending, changes,
                    ever, last >>

NextSettings == ConstructGame \/ UpdateInAir

SpecSettings == NewSettings /\ [][NextSettings]_vars

(* The numbers of JavaScript keep 53 binary digits and every operation rounds
   its result to the nearest number; Float(x) is that rounding for numbers
   that keep Significand binary digits (ties to the even neighbour) *)
Spacing(x) ==
    CHOOSE s \in {2^k : k \in 0..8} :
        \/ s = 1 /\ x < 2^Significand
        \/ s > 1 /\ 2^(Significand - 1) * s <= x /\ x < 2^Significand * s

Nearest(x) ==
    LET s == Spacing(x)
        below == (x \div s) * s
        rest == x % s
    IN  IF 2 * rest < s THEN below
        ELSE IF 2 * rest > s THEN below + s
        ELSE IF (x \div s) % 2 = 0 THEN below ELSE below + s

Float(x) == IF x < 0 THEN 0 - Nearest(0 - x) ELSE Nearest(x)

Floats == {x \in 0..MaxBegan : Float(x) = x}

(* A quarter turn, as update computes it on rounded numbers: the angular
   velocity is one angle unit per time unit, so that the turn lasts
   PI \div 2 time units and dividing by the velocity changes nothing *)
turnAngularVelocity == 1

NewTurn ==
    /\ NewGame
    /\ \E began \in Floats :
        query = [t |-> began, inRotation |-> TRUE, inRotationSince |-> began,
                 rotation |-> 0, called |-> FALSE, elapsedTime |-> 0,
                 dt |-> 0, before |-> began]

UpdateTurning(elapsedTime) ==
    /\ query.inRotation
    /\ LET dtRotation == Float(Float((PI \div 2) - query.rotation) \div turnAngularVelocity)
           dt == NextEvent({elapsedTime, dtRotation})
           now == Float(query.t + dt)
       IN  query' = [query EXCEPT
                !.t = now,
                !.inRotation = dt # dtRotation,
                !.rotation = IF dt = dtRotation THEN 0
                             ELSE Float(Float(now - query.inRotationSince) * turnAngularVelocity),
                !.called = TRUE,
                !.elapsedTime = elapsedTime,
                !.dt = dt,
                !.before = query.t]
    /\ UNCHANGED <<t, score, gameOver, gameOverAt, tiles, seed, player, viewportStart,
                   viewportEnd, cameraPosition, inputs, jumpQueued, pending, changes,
                   ever, last>>

NextDrift == \E elapsedTime \in 1..(PI \div 2) : UpdateTurning(elapsedTime)

SpecDrift == NewTurn /\ [][NextDrift]_vars

---------------------------------------------------------------------------
(* Properties *)

(* The sub-step that just ended fired a jump: Player.jump ran at this.t *)
JumpFiredNow ==
    player.inAir /\ player.inAirSince = t /\ player.velocity = playerJumpVelocity

(* The footprint of the avatar, brought to altitude 0, is over a Tile *)
OverWalkable == playerIsOnTheseTiles([player EXCEPT !.position.z = 0], tiles) # {}

(* C1: Game.score never decreases from one sub-step of update to the next and
   is always an integer >= 0, whatever the inputs and the elapsed times. *)
C1_ScoreNeverDecreases == [][score' >= score /\ score' \in Nat]_vars

(* the avatar has scored and then gone back behind its record *)
C1_Witness == last.substep /\ score >= 1 /\ Progress(player.position) < score

(* C2: once Game.gameOver is true it stays true, and Game.gameOverAt is
   assigned only in the sub-step where gameOver becomes true (to the time of
   that sub-step) and never changes afterwards, whatever calls of update and
   generateWorld follow. *)
C2_GameOverTerminal ==
    [][ /\ (gameOver => gameOver' /\ gameOverAt' = gameOverAt)
        /\ (gameOverAt' # gameOverAt => ~gameOver /\ gameOver' /\ gameOverAt' = t') ]_vars

(* after the game is over, a later sub-step ends with the avatar dead again,
   and the renderers have asked for a window *)
C2_Witness ==
    /\ gameOver /\ last.substep /\ t > gameOverAt
    /\ Dies(player.position, cameraPosition)
    /\ viewportStart > 0

(* the condition of C3 at the end of a sub-step *)
DeathCondition ==
    \/ Distance(player.position) < getCameraPosition(t) - Scale * gameDeathZone
    \/ player.position.z < -EPSILON

(* C3: Game.gameOver changes from false to true in a sub-step of update if and
   only if, at the end of that sub-step, the distance of the avatar along the
   diagonal is less than getCameraPosition(t) - gameDeathZone or position.z is
   less than -EPSILON; gameOverAt is then the time t of that sub-step; nothing
   else sets gameOver. *)
C3_GameOverCondition ==
    [][ /\ (last'.substep /\ ~gameOver => (gameOver' <=> DeathCondition'))
        /\ (~gameOver /\ gameOver' => last'.substep /\ gameOverAt' = t') ]_vars

(* the game has just ended because the avatar fell, ahead of the death zone *)
C3_Witness ==
    /\ last.substep /\ gameOver /\ gameOverAt = t
    /\ player.position.z < -EPSILON
    /\ Distance(player.position) >= cameraPosition - Scale * gameDeathZone

(* C4: landing is never overshot: an avatar in the air after a jump, at an
   altitude >= 0, which does not move horizontally (no direction is asked) and
   whose footprint is over a walkable cell, never has position.z < 0 at the
   end of the next step, however the elapsed time is cut into calls of update. *)
C4_LandingNeverOvershot ==
    [][ ( /\ player.inAir /\ player.velocity.z > 0 /\ player.position.z >= 0
          /\ lengthSquared(inputs.direction) = 0
          /\ OverWalkable )
        => player'.position.z >= 0 ]_vars

(* C5: update(elapsedTime) terminates: each recursive sub-step consumes a
   strictly positive dt and leaves strictly less time to the next one, and
   the recursive calls of one call of update come to an end. *)
C5_UpdateTerminates ==
    /\ [][ pending # Idle =>
            /\ t' > t
            /\ (pending' = Idle \/ (pending' > EPSILON /\ pending' < pending)) ]_vars
    /\ (pending # Idle ~> pending = Idle)

(* a call of update has ended after a recursive sub-step *)
C5_Witness == last.substep /\ last.recursive /\ pending = Idle

(* C6: a jump fires in a sub-step only if, at the point the inputs are
   examined, the avatar is not airborne and not turning; and when jump is
   asserted in such a sub-step it fires in that sub-step (inAir is true,
   inAirSince is t, velocity is the jump velocity) and jumpQueued is cleared. *)
C6_JumpOnlyGroundedNotTurning ==
    last.substep =>
        /\ (JumpFiredNow => last.grounded /\ ~last.turning)
        /\ (inputs.jump /\ last.grounded /\ ~last.turning
                => JumpFiredNow /\ ~jumpQueued)

(* a jump has just fired from the ground *)
C6_Witness == last.substep /\ ~last.wasInAir /\ JumpFiredNow /\ inputs.jump

(* C7: a jump asked while the avatar is airborne has no immediate effect
   (velocity, inAirSince and the altitude law are unchanged), and fires in the
   sub-step in which the avatar lands on a walkable cell if jump is still
   asserted then. *)
C7_JumpWhileAirborne ==
    [][ last'.substep /\ player.inAir /\ inputs.jump =>
            IF last'.landed
                THEN JumpFiredNow'
                ELSE /\ player'.inAir
                     /\ player'.velocity = player.velocity
                     /\ player'.inAirSince = player.inAirSince
                     /\ player'.position.z
                            = Altitude(t' - player.inAirSince, player.velocity.z) ]_vars

(* the avatar has just landed with jump asserted, and has jumped again *)
C7_Witness ==
    last.substep /\ last.wasInAir /\ last.landed /\ inputs.jump /\ JumpFiredNow

(* C8: whenever gameOver is false or the time asked is <= gameOverAt,
   getCameraPosition returns gameAcceleration / 2 * t * t
   + gameInitialVelocity * t + gameInitialPosition, and after every sub-step
   of update Game.cameraPosition is getCameraPosition(Game.t). *)
C8_CameraIsFunctionOfTime ==
    /\ cameraPosition = getCameraPosition(t)
    /\ \A k \in 0..(MaxT + 1) :
            (~gameOver \/ k <= gameOverAt) =>
                getCameraPosition(k)
                    = (Scale * gameAcceleration * k * k) \div 2
                        + Scale * gameInitialVelocity * k
                        + Scale * gameInitialPosition

(* a sub-step has ended after the game is over, past gameOverAt *)
C8_Witness == last.substep /\ gameOver /\ t > gameOverAt

(* C9: after the game is over, getCameraPosition is continuous at gameOverAt
   (both returns give the same value there), is non-decreasing in t, and from
   gameOverAt + rendererFallingAnimationDuration on is the constant
   getCameraPosition(gameOverAt) + v * D / 2, with
   v = gameAcceleration * gameOverAt + gameInitialVelocity. *)
C9_CameraAfterGameOver ==
    gameOver =>
        LET D == rendererFallingAnimationDuration
            v == gameAcceleration * gameOverAt + gameInitialVelocity
        IN  /\ CameraAfter(gameOverAt, gameOverAt) = getCameraPosition(gameOverAt)
            /\ \A k \in 0..(2 * D) :
                    getCameraPosition(gameOverAt + k)
                        <= getCameraPosition(gameOverAt + k + 1)
            /\ \A k \in D..(2 * D) :
                    getCameraPosition(gameOverAt + k)
                        = getCameraPosition(gameOverAt) + (Scale * v * D) \div 2

(* the game has been over for longer than the falling animation, and the
   camera holds *)
C9_Witness ==
    /\ gameOver /\ last.substep
    /\ t > gameOverAt + rendererFallingAnimationDuration
    /\ cameraPosition
        = getCameraPosition(gameOverAt)
            + (Scale * (gameAcceleration * gameOverAt + gameInitialVelocity)
                * rendererFallingAnimationDuration) \div 2

(* C10: after any sequence of calls generateWorld(start, end) with
   start <= end, every (x, y) with viewportStart <= x, y <= viewportEnd has a
   cell stored in Game.tiles. *)
C10_ViewportMaterialized ==
    \A x \in viewportStart..viewportEnd, y \in viewportStart..viewportEnd :
        Stored(tiles, x, y)

(* C11: when generateWorld(start, end) advances the window forward (the
   clamped start is greater than the previous viewportStart), afterwards no
   stored cell has x < start or y < start; when the clamped start is not
   greater than the previous viewportStart, no stored cell is removed. *)
C11_EvictionOnAdvance ==
    [][ /\ (viewportStart' > viewportStart =>
                \A y \in DOMAIN tiles' :
                    y >= viewportStart' /\ \A x \in DOMAIN tiles'[y] : x >= viewportStart')
        /\ (viewportStart' <= viewportStart =>
                \A y \in DOMAIN tiles :
                    y \in DOMAIN tiles' /\ DOMAIN tiles[y] \subseteq DOMAIN tiles'[y]) ]_vars

(* C12: generateWorld is idempotent: right after a call generateWorld(s, e), a
   second call generateWorld(s, e) leaves Game.tiles -- the cells stored, their
   classification, their consumed and consumedSince -- unchanged, stores no
   new cell, and leaves viewportStart and viewportEnd unchanged. *)
C12_GenerateWorldIdempotent ==
    last.window # << >> =>
        LET again == generateWorld(tiles, seed, viewportStart, viewportEnd,
                                   last.window[1], last.window[2])
        IN  /\ again = tiles
            /\ Generated(tiles, again) = {}
            /\ Max(0, last.window[1]) = viewportStart
            /\ last.window[2] = viewportEnd

(* a generateWorld call has just moved the window while a consumed power-up is
   stored in it *)
C12_Witness ==
    /\ last.window # << >>
    /\ viewportEnd # rendererTilesOnScreen
    /\ \E c \in Coordinates(tiles) : tiles[c[2]][c[1]].consumed

(* C13: across update and generateWorld calls, a coordinate for which a cell
   was once created never gets a newly generated cell, and a power-up
   coordinate that has been consumed never later holds an unconsumed
   power-up. *)
C13_CellNeverRecreated ==
    [][ /\ Generated(tiles, tiles') \cap ever.created = {}
        /\ \A c \in ever'.consumed \cap Coordinates(tiles') :
                ~ (tiles'[c[2]][c[1]].kind = "PowerUpTile" /\ ~tiles'[c[2]][c[1]].consumed)
      ]_vars

(* C14: isPowerUp(x, y) is true only for x = y and x >= 1, so every
   PowerUpTile stored in Game.tiles lies on the diagonal; the seed never
   changes after construction, and the classification of a coordinate is the
   same at every query: every cell stored by generateWorld has the kind that
   isPowerUp and isTile give for its coordinate now. *)
C14_PowerUpsOnDiagonal ==
    /\ [][seed' = seed]_vars
    /\ [](\A x \in (0 - 1)..(MaxCoord + 2), y \in (0 - 1)..(MaxCoord + 2) :
                isPowerUp(x, y) => x = y /\ x >= 1)
    /\ [](\A c \in Coordinates(tiles) :
            /\ tiles[c[2]][c[1]].kind = "PowerUpTile" => c[1] = c[2] /\ c[1] >= 1
            /\ c # <<1, 1>> => tiles[c[2]][c[1]].kind = NewCell(seed, c[1], c[2]).kind)

(* generateWorld has just been called with the window moved forward and a
   PowerUpTile is stored *)
C14_Witness ==
    /\ last.window # << >>
    /\ viewportStart > 0
    /\ \E c \in Coordinates(tiles) : tiles[c[2]][c[1]].kind = "PowerUpTile"

(* C15 as stated: with gameAcceleration = 0.1 * sqrt(2), gameInitialVelocity =
   1.0 * sqrt(2) and gameTimeBetweenPowerUps = 10, floor(n(1 * sqrt(2)))
   differs from floor(n(0)) and isPowerUp(1, 1) returns true. *)
C15_PowerUpAtFirstCell ==
    (query # << >> /\ query.x = 1 /\ query.y = 1) =>
        (query.floor # query.floorBefore /\ query.result)

(* C15, amended: with these settings floor(n(1 * sqrt(2))) and floor(n(0)) are
   both 0, so isPowerUp(1, 1) returns false. *)
C15_NoPowerUpAtFirstCell ==
    (query # << >> /\ query.x = 1 /\ query.y = 1) =>
        (query.floor = 0 /\ query.floorBefore = 0 /\ ~query.result)

(* isPowerUp(1, 1) has been called *)
C15_Witness == query # << >> /\ query.x = 1 /\ query.y = 1 /\ ~query.result

(* C16: every walkable cell (Tile or PowerUpTile) stored in Game.tiles, the
   start tile of the constructor included, satisfies |x - y| < gameWidth. *)
C16_WalkableInStrip ==
    \A c \in Coordinates(tiles) :
        InstanceOfTile(tiles[c[2]][c[1]]) => Abs(c[1] - c[2]) < gameWidth

(* generateWorld has stored a Tile other than the start tile, and a cell
   outside the strip *)
C16_Witness ==
    /\ last.window # << >>
    /\ \E c \in Coordinates(tiles) : c # <<1, 1>> /\ tiles[c[2]][c[1]].kind = "Tile"
    /\ \E c \in Coordinates(tiles) :
            Abs(c[1] - c[2]) >= gameWidth /\ tiles[c[2]][c[1]].kind = "GameCell"

(* (b - a) x (v - a): on which side of the line from a to b the point v is *)
Side(a, b, v) == (b.x - a.x) * (v.y - a.y) - (b.y - a.y) * (v.x - a.x)

(* The point is strictly inside the polygon: strictly on the inner side of the
   line of every edge *)
StrictlyInside(v, path) ==
    LET n == Len(path)
    IN  \/ \A i \in 1..n : Side(path[i], path[(i % n) + 1], v) > 0
        \/ \A i \in 1..n : Side(path[i], path[(i % n) + 1], v) < 0

(* The point is on the edge from a to b, ends included *)
OnEdge(a, b, v) ==
    /\ Side(a, b, v) = 0
    /\ (v.x - a.x) * (v.x - b.x) <= 0
    /\ (v.y - a.y) * (v.y - b.y) <= 0

(* C17: for every convex, consistently wound polygon and every point of its
   plane, isPointInPath(point, path) returns true if and only if the point is
   strictly inside the polygon; it returns false for a point on an edge, for
   a vertex and for every outside point. *)
C17_PointInPathIsStrictInterior ==
    query.called => (query.result <=> StrictlyInside(query.point, query.path))

(* isPointInPath has returned false for a point on an edge of a quadrilateral
   that is not one of its vertices *)
C17_Witness ==
    /\ query.called
    /\ ~query.result
    /\ Len(query.path) = 4
    /\ \A i \in 1..4 : query.path[i] # query.point
    /\ \E i \in 1..4 : OnEdge(query.path[i], query.path[(i % 4) + 1], query.point)

(* the directions App.update builds from the four arrow keys *)
KeyDirections ==
    {[x |-> u - d - l + r, y |-> u - d + l - r] : u \in 0..1, d \in 0..1, l \in 0..1, r \in 0..1}

(* C18: Vect.normalize throws exactly when the length of the vector is zero
   and returns a vector otherwise; update normalizes the input direction only
   when its squared length is > 0, so no call of update throws, a call with
   the zero direction included. *)
C18_UpdateNeverNormalizesZero ==
    /\ [](\A v \in KeyDirections :
            /\ (normalize(v) = Thrown) <=> (lengthSquared(v) = 0)
            /\ normalize(v) # Thrown => lengthSquared(normalize(v)) > 0)
    /\ [](~last.threw)
    /\ [](last.substep => InputDirection(inputs) # Thrown)

(* a sub-step of update has run with the zero direction, which it has not
   normalized *)
C18_Witness ==
    /\ last.substep
    /\ lengthSquared(inputs.direction) = 0
    /\ InputDirection(inputs) = inputs.direction
    /\ t > 0

(* the settings the claim calls malformed *)
Malformed(c) ==
    \/ c.gameAcceleration = 0
    \/ c.gameTimeBetweenPowerUps = 0
    \/ c.playerSize = 0
    \/ c.playerAccelerationZ = 0

(* C19: constructing the simulation with malformed settings (gameAcceleration
   = 0, gameTimeBetweenPowerUps = 0, playerSize = 0 or playerAcceleration.z =
   0) is rejected at construction, so that no division by zero or NaN reaches
   isPowerUp, _updateStats or the computation of the time to land. *)
C19_MalformedSettingsRejected ==
    query.constructed =>
        /\ Malformed(query.settings) => query.rejected
        /\ ~query.rejected =>
                /\ query.powerUpIndex = "finite"
                /\ query.angularVelocity = "finite"
                /\ query.timeToLand \in {"none", "finite"}

(* what is left of the quarter turn under way, of the fall when that is more
   than EPSILON, and of the turn towards the direction of the keys, for the
   avatar p at time now: the horizons pending when a sub-step begins *)
PendingHorizons(p, now, in) ==
    LET direction == InputDirection(in)
        angle == atan2(direction.y, direction.x)
        diff == Abs(angle - p.orientation) % (PI \div 2)
        toLand == (2 * p.velocity.z) \div (0 - playerAcceleration.z) - (now - p.inAirSince)
    IN  (IF p.inRotation
            THEN {Quot((PI \div 2) - p.rotation, p.rotationAngularVelocity)} ELSE {})
        \cup (IF p.inAir /\ toLand > EPSILON THEN {toLand} ELSE {})
        \cup (IF lengthSquared(direction) > 0 /\ ~p.inRotation /\ diff > EPSILON
                THEN {Min(Quot(diff, p.orientationAngularVelocity),
                          Quot((PI \div 2) - diff, p.orientationAngularVelocity))}
                ELSE {})

(* With exact numbers, every sub-step of update(elapsedTime) with elapsedTime
   > 0 advances Game.t by the nearest pending horizon, which is positive and
   at most elapsedTime, and update(e) returns with Game.t advanced by an
   amount in [e - EPSILON, e] *)
ExactStepIsTheNearestHorizon ==
    /\ [][t' >= t]_vars
    /\ [][ \A e \in Elapsed \cup ElapsedLong \cup {pending} :
            (e > 0 /\ (Update(e) \/ (pending = e /\ UpdateRecurse))) =>
                /\ t' - t > 0
                /\ t' - t <= e
                /\ \A horizon \in PendingHorizons(player, t, inputs) : t' - t <= horizon
                /\ last'.elapsed = e /\ last'.began = t ]_vars
    /\ [](last.substep /\ last.callElapsed > 0 /\ pending = Idle =>
            /\ t - last.callBegan >= last.callElapsed - EPSILON
            /\ t - last.callBegan <= last.callElapsed)

(* C20: in every sub-step of update(elapsedTime) with elapsedTime > 0 the step
   dt satisfies 0 < dt <= elapsedTime and is no larger than any pending
   horizon; Game.t never decreases; and when update(e) returns, Game.t has
   advanced by an amount in [e - EPSILON, e].  Stated of the sub-steps taken
   while the avatar turns, on rounded numbers: the step is positive and at
   most elapsedTime, and Game.t does not decrease. *)
C20_StepIsPositive ==
    (query.called /\ query.elapsedTime > 0) =>
        /\ 0 < query.dt
        /\ query.dt <= query.elapsedTime
        /\ query.t >= query.before

(* the events of a kind that the call of update of the last sub-step has
   resolved, as the set of their times *)
ResolvedAt(kind) ==
    {last.events[i][2] : i \in {j \in DOMAIN last.events : last.events[j][1] = kind}}

(* the time at which the quarter turn under way is due to end, and the time at
   which the jump under way is due to land *)
TurnDue == player.inRotationSince + Quot(PI \div 2, player.rotationAngularVelocity)

LandingDue ==
    player.inAirSince + (2 * player.velocity.z) \div (0 - playerAcceleration.z)

(* the quarter turn under way was due at or before t and has not been ended *)
TurnOverdue == player.inRotation /\ TurnDue <= t

(* the jump under way was due to land during the call of update of the last
   sub-step, at or before t, and no sub-step of the call has resolved it *)
LandingOverdue ==
    /\ player.inAir /\ player.velocity.z > 0
    /\ last.callBegan < LandingDue /\ LandingDue <= t
    /\ LandingDue \notin ResolvedAt("landing")

(* the call of update that has just returned spanned the end of a quarter
   turn, resp. a landing: one of its sub-steps resolved it, or it is overdue *)
SpannedTurn == ResolvedAt("turn") # {} \/ TurnOverdue

SpannedLanding == ResolvedAt("landing") # {} \/ LandingOverdue

(* C21: when one call update(elapsedTime) spans the end of a quarter turn and
   a landing, the earlier event is resolved first and the later one in a later
   sub-step of the same call: when the call returns, no turn due at or before
   t is still in progress and no landing due at or before t is unresolved. *)
C21_BothEventsResolved ==
    (last.substep /\ pending = Idle /\ SpannedTurn /\ SpannedLanding) =>
        /\ ~TurnOverdue
        /\ ~LandingOverdue
        /\ \A i, j \in DOMAIN last.events : i < j => last.events[i][2] <= last.events[j][2]

(* a call has returned after it ended a quarter turn, fired the jump asked
   for and landed it on a tile, where the next jump fired at once, each event
   in a sub-step of its own *)
C21_Witness ==
    /\ last.substep /\ pending = Idle
    /\ \E i, j \in DOMAIN last.events :
            /\ i < j /\ last.events[i][1] = "turn" /\ last.events[j][1] = "landing"
            /\ last.events[i][2] < last.events[j][2]
            /\ player.inAir /\ player.inAirSince = last.events[j][2]
            /\ player.velocity = playerJumpVelocity

(* the step taken is a sub-step of update(e), with e its elapsedTime *)
SubStep(e) == (Update(e) \/ (pending = e /\ UpdateRecurse)) /\ last'.substep

(* the elapsedTime of the sub-steps *)
SubStepTimes == Elapsed \cup ElapsedLong \cup {pending}

(* the step taken began a quarter turn: beginRotation(this.t) ran *)
TurnBegan ==
    /\ player'.inRotation /\ player'.inRotationSince = t'
    /\ (t' > t \/ ~player.inRotation)

(* C22: a quarter turn begins in a sub-step only if the input direction is
   non-zero, no turn is in progress, the orientation agrees with the requested
   angle modulo PI/2 within EPSILON, and the avatar is not airborne (after the
   jump has been processed in that sub-step); a turn never begins while the
   avatar is airborne, and when it begins rotation = 0 and inRotationSince = t. *)
C22_TurnBeginsGroundedAligned ==
    [][ \A e \in SubStepTimes :
            (SubStep(e) /\ TurnBegan) =>
                LET direction == InputDirection(inputs)
                    angle == atan2(direction.y, direction.x)
                    examined == Examined(e)
                IN  /\ lengthSquared(inputs.direction) > 0
                    /\ ~examined.inRotation
                    /\ Abs(Rem(angle - examined.orientation, PI \div 2)) < EPSILON
                    /\ ~examined.inAir
                    /\ ~player'.inAir
                    /\ player'.rotation = 0
                    /\ player'.inRotationSince = t' ]_vars

(* the avatar has come down from a jump onto a tile and the quarter turn began
   in the sub-step of the landing *)
C22_Witness ==
    /\ last.substep /\ last.wasInAir /\ last.landed /\ t > 0
    /\ player.inRotation /\ player.inRotationSince = t /\ player.rotation = 0
    /\ ~player.inAir

(* the angle asked for by the keys, and what separates the orientation p from
   it modulo PI/2 as the code measures it (line 874) *)
RequestedAngle == atan2(InputDirection(inputs).y, InputDirection(inputs).x)

Misalignment(p) == Abs(RequestedAngle - p.orientation) % (PI \div 2)

(* a direction is held that disagrees with the orientation of the avatar p
   modulo PI/2, and no quarter turn is in progress *)
Misaligned(p) ==
    /\ lengthSquared(inputs.direction) > 0
    /\ ~p.inRotation
    /\ Misalignment(p) > EPSILON

(* the shorter of the two arcs to the aligned angle, the time it takes at the
   angular velocity of p, and the sense of the shorter arc (-1 is clockwise) *)
ShorterArc(p) == Min(Misalignment(p), (PI \div 2) - Misalignment(p))

TimeToAlign(p) == Quot(ShorterArc(p), p.orientationAngularVelocity)

ShorterSense(p) ==
    IF (PI \div 2) - Misalignment(p) < Misalignment(p)
        THEN (IF RequestedAngle < p.orientation THEN 1 ELSE 0 - 1)
        ELSE (IF RequestedAngle < p.orientation THEN 0 - 1 ELSE 1)

(* C23: when a held input direction disagrees with the orientation modulo PI/2
   and no turn is in progress, the orientation rotates at
   orientationAngularVelocity in one fixed sense along the shorter of the two
   arcs, never overshoots the aligned angle, and becomes aligned after exactly
   min(diff, PI/2 - diff) / orientationAngularVelocity of simulated time (at
   most (PI/4) / orientationAngularVelocity), at which point it is set to the
   requested angle. *)
C23_OrientationAlignsAlongShorterArc ==
    [][ \A e \in SubStepTimes :
            (SubStep(e) /\ Misaligned(player)) =>
                /\ t' - t <= TimeToAlign(player)
                /\ TimeToAlign(player) <= Quot(PI \div 4, player.orientationAngularVelocity)
                /\ t' - t = TimeToAlign(player) => player'.orientation = RequestedAngle
                /\ t' - t < TimeToAlign(player) =>
                        /\ player'.orientation = player.orientation
                                + ShorterSense(player) * (t' - t) * player.orientationAngularVelocity
                        /\ (t' - t) * player.orientationAngularVelocity < ShorterArc(player)
                        /\ Misaligned(player')
                        /\ ShorterSense(player') = ShorterSense(player)
                        /\ ShorterArc(player') =
                                ShorterArc(player) - (t' - t) * player.orientationAngularVelocity ]_vars

(* C24: at the end of every sub-step, if inRotation is false then rotation = 0
   and if inRotation is true then 0 <= rotation < PI/2; a turn begun at time s
   is ended by endRotation in the sub-step ending exactly at
   s + (PI/2) / rotationAngularVelocity, however the elapsed time is cut into
   calls of update.  Stated of the sub-steps of a quarter turn on rounded
   numbers, where the turn lasts PI \div 2 time units. *)
C24_RotationWithinQuarterTurn ==
    query.called =>
        /\ ~query.inRotation => query.rotation = 0
        /\ query.inRotation => 0 <= query.rotation /\ query.rotation < PI \div 2
        /\ query.inRotation => query.t < query.inRotationSince + (PI \div 2)

(* the horizontal position of the avatar p *)
XY(p) == [x |-> p.position.x, y |-> p.position.y]

(* side * (cos(orientation), sin(orientation)) for the avatar p *)
SideStep(p) ==
    [x |-> RoundDiv(p.side * Cos(p.orientation), 1000),
     y |-> RoundDiv(p.side * Sin(p.orientation), 1000)]

(* C25: while a quarter turn is in progress the x, y position of the avatar
   and its orientation are unchanged by update, and the completion of the turn
   (endRotation) clears inRotation and adds exactly
   side * (cos(orientation), sin(orientation), 0) to the position. *)
C25_TurnKeepsPositionAndOrientation ==
    [][ \A e \in SubStepTimes :
            (SubStep(e) /\ player.inRotation) =>
                /\ t' < TurnDue =>
                        /\ player'.inRotation
                        /\ XY(player') = XY(player)
                        /\ player'.orientation = player.orientation
                /\ (t' = TurnDue /\ lengthSquared(inputs.direction) = 0) =>
                        /\ ~player'.inRotation
                        /\ player'.position.x = player.position.x + SideStep(player).x
                        /\ player'.position.y = player.position.y + SideStep(player).y ]_vars

(* the power-up cells stored before and after a step whose consumed flag the
   step flips from false to true *)
Flipped ==
    {c \in Coordinates(tiles) \cap Coordinates(tiles') :
        /\ tiles[c[2]][c[1]].kind = "PowerUpTile"
        /\ ~tiles[c[2]][c[1]].consumed
        /\ tiles'[c[2]][c[1]].consumed}

(* C26: Player.level never decreases and increases by exactly one for each
   power-up cell whose consumed flag flips from false to true; a cell is
   consumed only in a sub-step where position.z = 0, the footprint overlaps
   that cell and the avatar is not mid-turn; a given PowerUpTile is consumed
   at most once, with consumedSince and levelSince set to the time t of that
   sub-step. *)
C26_LevelCountsPowerUps ==
    [][ /\ player'.level = player.level + Cardinality(Flipped)
        /\ \A c \in Coordinates(tiles) \cap Coordinates(tiles') :
                (tiles[c[2]][c[1]].kind = "PowerUpTile" /\ tiles[c[2]][c[1]].consumed) =>
                    tiles'[c[2]][c[1]] = tiles[c[2]][c[1]]
        /\ Flipped # {} =>
                /\ last'.substep
                /\ player'.position.z = 0
                /\ player'.levelSince = t'
                /\ \A c \in Flipped : tiles'[c[2]][c[1]].consumedSince = t'
                /\ \A e \in SubStepTimes : SubStep(e) =>
                        /\ Advanced(e).position.z = 0
                        /\ ~Advanced(e).inRotation
                        /\ Flipped \subseteq playerIsOnTheseTiles(Advanced(e), tiles) ]_vars

(* the avatar has just eaten its second power-up *)
C26_Witness ==
    /\ last.substep /\ player.level = 2 /\ player.levelSince = t
    /\ Cardinality(ever.consumed) = 2
    /\ \A c \in ever.consumed : Stored(tiles, c[1], c[2]) => tiles[c[2]][c[1]].consumed

(* the three velocities of the avatar p *)
Velocities(p) ==
    << p.inAirVelocity, p.rotationAngularVelocity, p.orientationAngularVelocity >>

(* C27: in every reachable state inAirVelocity = gameInitialVelocity
   + gameAcceleration * gameTimeBetweenPowerUps * (level + 2) and
   rotationAngularVelocity = orientationAngularVelocity
   = inAirVelocity / side * PI / 2; with positive acceleration and power-up
   interval each eatPowerUp strictly increases all three, and they never
   change while a quarter turn is in progress. *)
C27_VelocitiesFollowLevel ==
    /\ [](/\ player.inAirVelocity = gameInitialVelocity
                + gameAcceleration * gameTimeBetweenPowerUps * (player.level + 2)
          /\ player.rotationAngularVelocity * player.side
                = player.inAirVelocity * (PI \div 2)
          /\ player.orientationAngularVelocity = player.rotationAngularVelocity)
    /\ [][ /\ player'.level > player.level =>
                \A i \in 1..3 : Velocities(player')[i] > Velocities(player)[i]
           /\ (player.inRotation /\ t' < TurnDue) =>
                Velocities(player') = Velocities(player) ]_vars

(* the avatar has eaten a power-up and is in the middle of a quarter turn *)
C27_Witness ==
    /\ last.substep /\ player.level >= 1
    /\ player.inRotation /\ player.rotation > 0
    /\ player.inRotationSince > player.levelSince

(* The diagonal cell x is the first one at or beyond the distance
   v0 * k * t0 + a * (k * t0)^2 / 2 the camera has travelled after k intervals
   (distances in twentieths of sqrt(2), settings of the source) *)
FirstCellBeyond(k, x) ==
    LET travelled == 2 * sourceInitialVelocity * k * sourceTimeBetweenPowerUps
                     + sourceAcceleration * (k * sourceTimeBetweenPowerUps)
                                          * (k * sourceTimeBetweenPowerUps)
    IN  20 * x >= travelled /\ 20 * (x - 1) < travelled

(* C28: power-ups sit exactly where the count of elapsed power-up intervals
   increments: isPowerUp(x, x) is true exactly for the x >= 1 with
   floor(n(x * sqrt(2))) >= k > floor(n((x - 1) * sqrt(2))) for some k >= 1,
   and that x is the first diagonal cell at or beyond the distance travelled
   under the camera law in k * t0 seconds. *)
C28_PowerUpsWhereIntervalsElapse ==
    (query # << >> /\ query.x = query.y /\ query.x >= 1) =>
        /\ query.result <=>
              \E k \in 1..MaxQuery : query.floor >= k /\ k > query.floorBefore
        /\ query.result <=> \E k \in 1..MaxQuery : FirstCellBeyond(k, query.x)
        /\ Cardinality({k \in 1..MaxQuery : FirstCellBeyond(k, query.x)}) <= 1

(* the avatar falls: it is airborne without the velocity of a jump *)
Falling == player.inAir /\ player.velocity = VectZERO

(* the sub-step update(elapsedTime) of the current state reaches the collision
   block with the avatar at altitude 0, not airborne, over no walkable cell *)
StepsIntoTheVoid(elapsedTime) ==
    LET advanced == Advanced(elapsedTime)
    IN  /\ advanced.position.z = 0
        /\ ~advanced.inAir
        /\ TilesUnder(advanced, tiles) = {}

(* C29: if in a sub-step the avatar is at position.z = 0, is not airborne and
   no walkable cell lies under its footprint, it becomes airborne with
   inAirSince = t and zero velocity; from then on its altitude is never again
   >= 0 after time advances, and it can never land or jump. *)
C29_FallIsFinal ==
    [][ /\ \A e \in SubStepTimes :
              (SubStep(e) /\ StepsIntoTheVoid(e)) =>
                  /\ player'.inAir /\ player'.inAirSince = t'
                  /\ player'.velocity = VectZERO
        /\ Falling =>
              /\ Falling' /\ player'.inAirSince = player.inAirSince
              /\ (t' > player.inAirSince => player'.position.z < 0) ]_vars

(* the avatar at the point where a sub-step update(elapsedTime) of the current
   state reaches "Changing orientation" is on the ground: not airborne *)
Grounded(elapsedTime) == ~Examined(elapsedTime).inAir

(* the sub-step update(elapsedTime) of the current state ends a quarter turn *)
EndsTurn(elapsedTime) ==
    LET h == Horizons(player, t, inputs, elapsedTime)
    IN  player.inRotation /\ h.dt = h.dtRotation

(* C30: the x, y position of the avatar changes in a sub-step only by a
   completed quarter turn (endRotation, exactly one side length) or by
   flyTowards while it is airborne: a grounded, non-airborne avatar is never
   translated by flyTowards, neither while its orientation is re-aligning nor
   in the sub-step in which a quarter turn begins. *)
C30_GroundedAvatarIsNotFlown ==
    [][ \A e \in SubStepTimes :
            (SubStep(e) /\ Grounded(e)) =>
                XY(player') =
                    IF EndsTurn(e)
                        THEN [x |-> player.position.x + SideStep(player).x,
                              y |-> player.position.y + SideStep(player).y]
                        ELSE XY(player) ]_vars

(* C31: in every reachable state, if the avatar is not airborne then its
   velocity is the zero vector, and if it is both turning and airborne then
   velocity.z = 0 (it is in free fall, not in a jump arc): a jump arc and a
   quarter turn are never in progress at the same time. *)
C31_NoJumpArcDuringTurn ==
    /\ ~player.inAir => player.velocity = VectZERO
    /\ (player.inRotation /\ player.inAir) => player.velocity.z = 0

(* the avatar is airborne in the middle of a quarter turn: it has begun to
   fall while turning *)
C31_Witness ==
    /\ last.substep /\ player.inRotation /\ player.rotation > 0
    /\ player.inAir /\ player.velocity.z = 0

(* C32: Game.update(0) is a no-op on the avatar: with elapsedTime = 0 the
   position, orientation, rotation and airborne and turning flags of the
   avatar, and the time t, are the same after the call as before it, for
   every reachable state and input. *)
C32_UpdateZeroIsNoOp ==
    [][ (Update(0) /\ last'.substep) =>
            /\ t' = t
            /\ player'.position = player.position
            /\ player'.orientation = player.orientation
            /\ player'.rotation = player.rotation
            /\ player'.inAir = player.inAir
            /\ player'.inRotation = player.inRotation ]_vars

(* the lengths of the frames that a longer frame is cut into, each > EPSILON *)
Parts == {2, 4}

(* what C33 compares of a game g *)
Outcome(g) ==
    [t |-> g.t, position |-> g.player.position, orientation |-> g.player.orientation,
     inAir |-> g.player.inAir, inAirSince |-> g.player.inAirSince,
     inRotation |-> g.player.inRotation, inRotationSince |-> g.player.inRotationSince,
     level |-> g.player.level, score |-> g.score,
     gameOver |-> g.gameOver, gameOverAt |-> g.gameOverAt]

(* C33: the simulation is independent of how elapsed time is partitioned into
   frames: for inputs held constant and any a, b > EPSILON, the game state
   (t, avatar position, orientation, flags and onset times, level, score,
   gameOver and gameOverAt) after update(a) followed by update(b) equals the
   state after the single call update(a + b). *)
C33_FramePartitionIndependent ==
    (pending = Idle /\ InArena) =>
        \A a \in Parts, b \in Parts :
            t + a + b <= MaxT =>
                Outcome(CallOf(CallOf(GameState, a), b))
                    = Outcome(CallOf(GameState, a + b))

(* no key has been pressed since the run started *)
NoKeyEver ==
    changes = 0 /\ inputs = [direction |-> [x |-> 0, y |-> 0], jump |-> FALSE]

(* C34: with a zero input direction and jump never asserted from the start of
   a run, the position, orientation, level and score of the avatar never
   change and it stays grounded. *)
C34_IdleAvatarStaysPut ==
    NoKeyEver =>
        /\ player.position = playerInitialPosition
        /\ player.orientation = 0
        /\ player.level = 0
        /\ score = 0
        /\ ~player.inAir

(* C35: a jump asserted while the avatar is grounded and mid-turn sets
   jumpQueued and, even if the jump input is released before the turn ends,
   fires in the very sub-step in which the turn completes, provided a walkable
   cell then lies under the avatar; jumpQueued is true only while the avatar
   is turning or airborne, and is cleared when the jump fires. *)
C35_QueuedJumpFiresAtTurnEnd ==
    /\ [](jumpQueued => player.inRotation \/ player.inAir)
    /\ [][ \A e \in SubStepTimes : SubStep(e) =>
            /\ (inputs.jump /\ last'.grounded /\ last'.turning) => jumpQueued'
            /\ (jumpQueued /\ EndsTurn(e) /\ TilesUnder(Advanced(e), tiles) # {}) =>
                    JumpFiredNow'
            /\ JumpFiredNow' => ~jumpQueued' ]_vars

(* a jump has fired in the sub-step that completed a quarter turn, with the
   jump key released: the jump was queued *)
C35_Witness ==
    /\ last.substep /\ JumpFiredNow /\ ~inputs.jump
    /\ t \in ResolvedAt("turn")

(* the game is as its constructor left it *)
JustConstructed ==
    /\ t = 0 /\ player = NewPlayer /\ ~gameOver /\ ~jumpQueued
    /\ tiles = generateWorld((1 :> (1 :> Tile)), seed, 0, 0, 0, rendererTilesOnScreen)

(* C36: for every seed, the cell (1, 1) under the initial position of the
   avatar is walkable when a run starts and stays a non-power-up Tile as long
   as it is stored, so immediately after construction the avatar is grounded,
   not turning, at level 0 with score 0, and the first collision check finds a
   supporting cell (a run can never start in free fall). *)
C36_RunStartsOnATile ==
    /\ []((1 \in DOMAIN tiles /\ 1 \in DOMAIN tiles[1]) => tiles[1][1].kind = "Tile")
    /\ [](JustConstructed =>
            /\ <<1, 1>> \in playerIsOnTheseTiles(player, tiles)
            /\ ~player.inAir /\ ~player.inRotation
            /\ player.level = 0 /\ score = 0)
    /\ [][ \A e \in SubStepTimes :
            (SubStep(e) /\ JustConstructed) =>
                last'.landed /\ (player'.inAir => JumpFiredNow') ]_vars

(* under a seed whose field is negative on some cells, the first sub-step of
   the run has found a tile under the avatar, which has not moved *)
C36_Witness ==
    /\ seed > 0 /\ last.substep /\ ~last.recursive /\ last.began = 0 /\ t > 0
    /\ last.landed /\ player.position = playerInitialPosition
    /\ tiles[1][1].kind = "Tile"

====
